---- MODULE Spec2Model ----
(***************************************************************************)
(* Model of the annotation core of rebeat's AudioSelector                   *)
(* (src/audioselector.py): the cursor, the ordered marks, the committed     *)
(* selections, the candidate selection and the observer lists, driven by    *)
(* the key and pointer handlers and the public delete/register calls.       *)
(*                                                                          *)
(* Time is counted in units of 0.001 s (the small cursor step), so the      *)
(* moves of _onkey are +-1 and +-10.  Python indices are 0-based and are    *)
(* kept 0-based in every argument and callback value; a TLA+ sequence is    *)
(* indexed at i + 1.  A visual handle (Line2D, Polygon) is a number drawn   *)
(* from a counter.  Cursor arithmetic is exact here; the handlers only      *)
(* compare times, so what they do depends on the order of the times alone.  *)
(***************************************************************************)
EXTENDS Integers, Sequences, FiniteSets, TLC

\* ------------------------------------------------------------------ bounds
\* Each specification fixes the session it explores: the upper x bound of the
\* bottom axes (the signal's duration), how many visual handles the plotting
\* surface hands out in all, and how many observers get registered.
\* the whole interface, on a short signal
Duration == 2
MaxHandles == 3
MaxCallbacks == 2
\* the selection events, on a signal with room for three selections and a candidate
SelectDuration == 4
SelectHandles == 4
SelectCallbacks == 1
\* the mark events, on a signal long enough for a large step to land inside it
MarkDuration == 11
MarkHandles == 3
MarkCallbacks == 1

\* -------------------------------------------------------- program constants
SmallStep == 1
LargeStep == 10

VARIABLES
  duration,            \* self.bot.get_xbound()[1]
  cursor,              \* self.cursor.get_xdata()[0]
  current_selection,   \* self._current_selection: NoSelection or <<start, end, polygon>>
  selections,          \* self._selections: sequence of <<start, end, polygon>>
  marks,               \* self._marks: sequence of <<x, line>>
  cb_selection,        \* self._cb_selection
  cb_mark,             \* self._cb_mark
  nextHandle,          \* the next visual handle the plotting surface hands out
  cap,                 \* the session's limits: handles handed out, observers registered
  last                 \* what the last handler did: its arguments, locals, calls, error

vars == <<duration, cursor, current_selection, selections, marks,
          cb_selection, cb_mark, nextHandle, cap, last>>

data == <<cursor, current_selection, selections, marks>>

\* None, the value of _current_selection while no candidate is open
NoSelection == <<>>

Min(a, b) == IF a <= b THEN a ELSE b
Max(a, b) == IF a >= b THEN a ELSE b

\* the callback a client registers next: callbacks are opaque to the model, so
\* each is named by its place in the order of registration
Callbacks == {Len(cb_mark) + Len(cb_selection) + 1}

\* the record of a handler that did nothing observable
Quiet(op, arg) ==
  [op |-> op, arg |-> arg, raised |-> "none", calls |-> <<>>, released |-> <<>>,
   cs |-> 0, ce |-> 0, start |-> 0, end |-> 0, new |-> FALSE, scan |-> <<>>]

\* ------------------------------------------------------------ public queries
get_marks == [k \in 1..Len(marks) |-> marks[k][1]]

get_selections == [k \in 1..Len(selections) |-> <<selections[k][1], selections[k][2]>>]

\* get_marks / get_selections of an arbitrary stored list
TimesOf(ms) == [k \in 1..Len(ms) |-> ms[k][1]]
RangesOf(ss) == [k \in 1..Len(ss) |-> <<ss[k][1], ss[k][2]>>]

\* ---------------------------------------------------------------- list.pop
\* seq with the element at Python index i removed
PopAt(seq, i) == [k \in 1..(Len(seq) - 1) |-> IF k <= i THEN seq[k] ELSE seq[k + 1]]

\* ------------------------------------------------------------- construction
InitWith(d, handles, callbacks) ==
  /\ duration = d
  /\ cursor = 0
  /\ current_selection = NoSelection
  /\ selections = <<>>
  /\ marks = <<>>
  /\ cb_selection = <<>>
  /\ cb_mark = <<>>
  /\ nextHandle = 1
  /\ cap = [handles |-> handles, callbacks |-> callbacks]
  /\ last = Quiet("init", 0)

Init == InitWith(Duration, MaxHandles, MaxCallbacks)

InitSelect == InitWith(SelectDuration, SelectHandles, SelectCallbacks)

InitMark == InitWith(MarkDuration, MarkHandles, MarkCallbacks)

\* ------------------------------------------------------ observer registration
on_create_mark(cb) ==
  /\ Len(cb_mark) + Len(cb_selection) < cap.callbacks
  /\ cb_mark' = Append(cb_mark, cb)
  /\ last' = Quiet("on_create_mark", cb)
  /\ UNCHANGED <<duration, cap, data, cb_selection, nextHandle>>

on_create_selection(cb) ==
  /\ Len(cb_mark) + Len(cb_selection) < cap.callbacks
  /\ cb_selection' = Append(cb_selection, cb)
  /\ last' = Quiet("on_create_selection", cb)
  /\ UNCHANGED <<duration, cap, data, cb_mark, nextHandle>>

\* ------------------------------------------------------------- index deletes
\* the guard without its test for a negative index
IndexOutOfRangeNoNegative(i, n) == i >= n

\* the guard of delete_mark and delete_selection
IndexOutOfRange(i, n) == i < 0 \/ i >= n

\* the position list.pop(i) removes: a negative index counts from the end
PyIndex(i, n) == IF i < 0 THEN i + n ELSE i

delete_mark(i) ==
  LET j == PyIndex(i, Len(marks)) IN
  \/ /\ IndexOutOfRange(i, Len(marks)) \/ j \notin 0..(Len(marks) - 1)
     /\ last' = [Quiet("delete_mark", i) EXCEPT !.raised = "IndexError"]
     /\ UNCHANGED <<duration, cap, data, cb_selection, cb_mark, nextHandle>>
  \/ /\ ~IndexOutOfRange(i, Len(marks))
     /\ j \in 0..(Len(marks) - 1)
     /\ marks' = PopAt(marks, j)
     /\ last' = [Quiet("delete_mark", i) EXCEPT !.released = <<marks[j + 1][2]>>]
     /\ UNCHANGED <<duration, cap, cursor, current_selection, selections,
                    cb_selection, cb_mark, nextHandle>>

delete_selection(i) ==
  LET j == PyIndex(i, Len(selections)) IN
  \/ /\ IndexOutOfRange(i, Len(selections)) \/ j \notin 0..(Len(selections) - 1)
     /\ last' = [Quiet("delete_selection", i) EXCEPT !.raised = "IndexError"]
     /\ UNCHANGED <<duration, cap, data, cb_selection, cb_mark, nextHandle>>
  \/ /\ ~IndexOutOfRange(i, Len(selections))
     /\ j \in 0..(Len(selections) - 1)
     /\ selections' = PopAt(selections, j)
     /\ last' = [Quiet("delete_selection", i) EXCEPT !.released = <<selections[j + 1][3]>>]
     /\ UNCHANGED <<duration, cap, cursor, current_selection, marks,
                    cb_selection, cb_mark, nextHandle>>

\* ------------------------------------------------------------ cursor movement
\* the clamp without its upper end
ClampNoUpper(x, hi) == Max(0, x)

Clamp(x, hi) == Max(0, Min(x, hi))

\* an update that moves the candidate's start and keeps its end
selection_update_start(cand, x) == <<x, cand[2], cand[3]>>

\* the candidate with its tracking end moved to x
selection_update(cand, x) == <<cand[1], x, cand[3]>>

set_cursor(x) ==
  LET c == Clamp(x, duration) IN
  /\ cursor' = c
  /\ current_selection' = IF current_selection # NoSelection
                          THEN selection_update(current_selection, c)
                          ELSE current_selection
  /\ last' = Quiet("set_cursor", x)
  /\ UNCHANGED <<duration, cap, selections, marks, cb_selection, cb_mark, nextHandle>>

MoveKeys == {"right", "up", "left", "down"}

move(key) ==
  CASE key = "right" -> SmallStep
    [] key = "up" -> LargeStep
    [] key = "left" -> -SmallStep
    [] key = "down" -> -LargeStep

\* _onkey with a key of the move table
onkey_move(key) == set_cursor(cursor + move(key))

\* the coordinates a pointer click may report, some outside the axes' range
ClickCoords == (-1)..(duration + 1)

onclick(x) == set_cursor(x)

\* a click outside both axes: event.xdata is None, which Python 2 orders below
\* every number, so min(None, bound) is None and max(0, None) is 0
onclick_outside ==
  /\ cursor' = 0
  /\ current_selection' = IF current_selection # NoSelection
                          THEN selection_update(current_selection, 0)
                          ELSE current_selection
  /\ last' = Quiet("set_cursor_none", 0)
  /\ UNCHANGED <<duration, cap, selections, marks, cb_selection, cb_mark, nextHandle>>

\* ------------------------------------------------------------------ selection
\* _selection_start: a zero-width candidate at the cursor, with a fresh polygon
selection_start ==
  /\ current_selection = NoSelection
  /\ nextHandle <= cap.handles
  /\ current_selection' = <<cursor, cursor, nextHandle>>
  /\ nextHandle' = nextHandle + 1
  /\ last' = Quiet("selection_start", cursor)
  /\ UNCHANGED <<duration, cap, cursor, selections, marks, cb_selection, cb_mark>>

\* a cancel that releases the polygon and forgets to clear _current_selection
selection_cancel_keeps ==
  /\ current_selection # NoSelection
  /\ last' = [Quiet("selection_cancel", 0) EXCEPT !.released = <<current_selection[3]>>]
  /\ UNCHANGED <<duration, cap, data, cb_selection, cb_mark, nextHandle>>

\* _selection_cancel: unpacking None raises TypeError before anything is touched
selection_cancel ==
  \/ /\ current_selection = NoSelection
     /\ last' = [Quiet("selection_cancel", 0) EXCEPT !.raised = "TypeError"]
     /\ UNCHANGED <<duration, cap, data, cb_selection, cb_mark, nextHandle>>
  \/ /\ current_selection # NoSelection
     /\ current_selection' = NoSelection
     /\ last' = [Quiet("selection_cancel", 0) EXCEPT !.released = <<current_selection[3]>>]
     /\ UNCHANGED <<duration, cap, cursor, selections, marks, cb_selection, cb_mark, nextHandle>>

\* Compare without its last branch: an overlap at the candidate's end goes unseen
CompareNoExtendEnd(s, e, start, end) ==
  IF s <= start /\ end <= e THEN "ignore"
  ELSE IF start <= s /\ e <= end THEN "kill"
  ELSE IF s <= start /\ start <= e THEN "extend_start"
  ELSE "pass"

\* Compare with the containment test made strict: a candidate equal to an
\* existing selection is no longer ignored
CompareStrictContain(s, e, start, end) ==
  IF s < start /\ end < e THEN "ignore"
  ELSE IF start <= s /\ e <= end THEN "kill"
  ELSE IF s <= start /\ start <= e THEN "extend_start"
  ELSE IF s <= end /\ end <= e THEN "extend_end"
  ELSE "pass"

\* Compare without the branch that kills a contained selection
CompareNoKill(s, e, start, end) ==
  IF s <= start /\ end <= e THEN "ignore"
  ELSE IF s <= start /\ start <= e THEN "extend_start"
  ELSE IF s <= end /\ end <= e THEN "extend_end"
  ELSE "pass"

\* Compare with the kill test joined by or: a selection that starts after the
\* candidate's start, or ends before its end, is killed
CompareKillLoose(s, e, start, end) ==
  IF s <= start /\ end <= e THEN "ignore"
  ELSE IF start <= s \/ e <= end THEN "kill"
  ELSE IF s <= start /\ start <= e THEN "extend_start"
  ELSE IF s <= end /\ end <= e THEN "extend_end"
  ELSE "pass"

\* Compare with the overlap tests made strict: a selection that the candidate
\* only touches at an endpoint is passed over
CompareStrictOverlap(s, e, start, end) ==
  IF s <= start /\ end <= e THEN "ignore"
  ELSE IF start <= s /\ e <= end THEN "kill"
  ELSE IF s < start /\ start < e THEN "extend_start"
  ELSE IF s < end /\ end < e THEN "extend_end"
  ELSE "pass"

\* the branch one pass of the loop of _selection_stop takes for the existing
\* selection (s, e) against the candidate's current range (start, end)
Compare(s, e, start, end) ==
  IF s <= start /\ end <= e THEN "ignore"
  ELSE IF start <= s /\ e <= end THEN "kill"
  ELSE IF s <= start /\ start <= e THEN "extend_start"
  ELSE IF s <= end /\ end <= e THEN "extend_end"
  ELSE "pass"

\* the loop of _selection_stop from Python index i on: the locals at its exit,
\* and the branch taken for each selection scanned
RECURSIVE Scan(_, _, _, _, _, _)
Scan(sels, i, start, end, remove, scan) ==
  IF i >= Len(sels)
  THEN [new |-> TRUE, start |-> start, end |-> end, remove |-> remove, scan |-> scan]
  ELSE LET s == sels[i + 1][1]
           e == sels[i + 1][2]
           b == Compare(s, e, start, end)
       IN CASE b = "ignore" ->
                 [new |-> FALSE, start |-> start, end |-> end, remove |-> remove,
                  scan |-> Append(scan, b)]
            [] b = "kill" ->
                 Scan(sels, i + 1, start, end, remove \cup {i}, Append(scan, b))
            [] b = "extend_start" ->
                 Scan(sels, i + 1, s, end, remove \cup {i}, Append(scan, b))
            [] b = "extend_end" ->
                 Scan(sels, i + 1, start, e, remove \cup {i}, Append(scan, b))
            [] OTHER ->
                 Scan(sels, i + 1, start, end, remove, Append(scan, b))

SetMax(S) == CHOOSE m \in S : \A n \in S : n <= m

SetMin(S) == CHOOSE m \in S : \A n \in S : m <= n

\* the deletes made in ascending order of index (sorted without reverse=True):
\* each pop shifts the indices still to be deleted
RECURSIVE DeleteAllAscending(_, _)
DeleteAllAscending(sels, remove) ==
  IF remove = {} THEN sels
  ELSE DeleteAllAscending(PopAt(sels, SetMin(remove)), remove \ {SetMin(remove)})

\* for i in sorted(remove, reverse=True): self.delete_selection(i)
RECURSIVE DeleteAll(_, _)
DeleteAll(sels, remove) ==
  IF remove = {} THEN sels
  ELSE DeleteAll(PopAt(sels, SetMax(remove)), remove \ {SetMax(remove)})

\* deletes that pop the selections and release no polygon
ReleasedByNone(sels, remove) == <<>>

\* the polygons those deletes release, in the order they are released
RECURSIVE ReleasedBy(_, _)
ReleasedBy(sels, remove) ==
  IF remove = {} THEN <<>>
  ELSE <<sels[SetMax(remove) + 1][3]>> \o ReleasedBy(sels, remove \ {SetMax(remove)})

\* the callbacks made before the deletes and the append
SelectionCallsEarly(start, end) ==
  [k \in 1..Len(cb_selection) |->
     [kind |-> "selection", cb |-> cb_selection[k], a |-> start, b |-> end,
      seen |-> RangesOf(selections)]]

\* for cb in self._cb_selection: cb(start, end); seen is what get_selections()
\* returns to the callback, the deletes and the append being done by then
SelectionCalls(start, end) ==
  [k \in 1..Len(cb_selection) |->
     [kind |-> "selection", cb |-> cb_selection[k], a |-> start, b |-> end,
      seen |-> RangesOf(selections')]]

\* the candidate's range as it was dragged
NormalizeNone(start, end) == <<start, end>>

\* the candidate's range, start before end
Normalize(start, end) == <<Min(start, end), Max(start, end)>>

selection_stop ==
  /\ current_selection # NoSelection
  /\ LET polygon == current_selection[3]
         n == Normalize(current_selection[1], current_selection[2])
         r == Scan(selections, 0, n[1], n[2], {}, <<>>)
         kept == DeleteAll(selections, r.remove)
     IN /\ current_selection' = NoSelection
        /\ selections' = IF r.new THEN Append(kept, <<r.start, r.end, polygon>>) ELSE kept
        /\ last' = [op |-> "selection_stop", arg |-> 0, raised |-> "none",
                    calls |-> IF r.new THEN SelectionCalls(r.start, r.end) ELSE <<>>,
                    released |-> ReleasedBy(selections, r.remove)
                                 \o (IF r.new THEN <<>> ELSE <<polygon>>),
                    cs |-> n[1], ce |-> n[2], start |-> r.start, end |-> r.end,
                    new |-> r.new, scan |-> r.scan]
  /\ UNCHANGED <<duration, cap, cursor, marks, cb_selection, cb_mark, nextHandle>>

\* a toggle that opens a candidate whether or not one is open
selection_toggle_reopens ==
  /\ nextHandle <= cap.handles
  /\ current_selection' = <<cursor, cursor, nextHandle>>
  /\ nextHandle' = nextHandle + 1
  /\ last' = Quiet("selection_start", cursor)
  /\ UNCHANGED <<duration, cap, cursor, selections, marks, cb_selection, cb_mark>>

\* _selection_toggle, reached by the ' ' key
selection_toggle ==
  \/ selection_start
  \/ selection_stop

\* ---------------------------------------------------------------------- marks
\* how many marks before Python index mid have the time x
TiesBefore(a, mid, x) == Cardinality({k \in 1..mid : a[k][1] = x})

\* the comparison turned round: a[mid] < (x, line) by time
LessThanMarkFlipped(a, mid, x, r) == x > a[mid + 1][1]

\* (x, line) < a[mid] as Python 2 compares tuples: by time, and at equal times by
\* the Line2D objects, which order by address.  Marks of one time sit in address
\* order, so with r of them below the new line the new tuple is less than
\* a[mid] exactly when at least r of them come before mid.
LessThanMark(a, mid, x, r) ==
  \/ x < a[mid + 1][1]
  \/ x = a[mid + 1][1] /\ TiesBefore(a, mid, x) >= r

\* no search at all: the new mark goes to the end of the list
BisectAppend(a, x, r, lo, hi) == hi

\* bisect.bisect (bisect_right): the binary search between lo and hi
RECURSIVE Bisect(_, _, _, _, _)
Bisect(a, x, r, lo, hi) ==
  IF lo >= hi THEN lo
  ELSE LET mid == (lo + hi) \div 2
       IN IF LessThanMark(a, mid, x, r)
          THEN Bisect(a, x, r, lo, mid)
          ELSE Bisect(a, x, r, mid + 1, hi)

\* list.insert(i, item)
InsertAt(seq, i, item) ==
  [k \in 1..(Len(seq) + 1) |->
     IF k <= i THEN seq[k] ELSE IF k = i + 1 THEN item ELSE seq[k - 1]]

\* the callbacks given the index of a search made after the insert
MarkCallsAfter(i, ms) ==
  [k \in 1..Len(cb_mark) |->
     [kind |-> "mark", cb |-> cb_mark[k], a |-> i + 1, b |-> TimesOf(ms)]]

\* for cb in self._cb_mark: cb(i, marks), marks being the times after the insert
MarkCalls(i, ms) ==
  [k \in 1..Len(cb_mark) |->
     [kind |-> "mark", cb |-> cb_mark[k], a |-> i, b |-> TimesOf(ms)]]

\* a commit-mark that also drops the open candidate
create_mark_drops_candidate ==
  /\ nextHandle <= cap.handles
  /\ \E r \in 0..Len(marks) :
       /\ r <= Cardinality({k \in 1..Len(marks) : marks[k][1] = cursor})
       /\ LET i == Bisect(marks, cursor, r, 0, Len(marks))
              ms == InsertAt(marks, i, <<cursor, nextHandle>>)
          IN /\ marks' = ms
             /\ last' = [Quiet("create_mark", cursor) EXCEPT !.calls = MarkCalls(i, ms)]
  /\ nextHandle' = nextHandle + 1
  /\ current_selection' = NoSelection
  /\ UNCHANGED <<duration, cap, cursor, selections, cb_selection, cb_mark>>

\* _create_mark, reached by the 'enter' and 'ctrl+ ' keys
create_mark ==
  /\ nextHandle <= cap.handles
  /\ \E r \in 0..Len(marks) :
       /\ r <= Cardinality({k \in 1..Len(marks) : marks[k][1] = cursor})
       /\ LET i == Bisect(marks, cursor, r, 0, Len(marks))
              ms == InsertAt(marks, i, <<cursor, nextHandle>>)
          IN /\ marks' = ms
             /\ last' = [Quiet("create_mark", cursor) EXCEPT !.calls = MarkCalls(i, ms)]
  /\ nextHandle' = nextHandle + 1
  /\ UNCHANGED <<duration, cap, cursor, current_selection, selections, cb_selection, cb_mark>>

\* a key of neither table looked up in the act table all the same
onkey_other_raises ==
  /\ last' = [Quiet("onkey_other", 0) EXCEPT !.raised = "KeyError"]
  /\ UNCHANGED <<duration, cap, data, cb_selection, cb_mark, nextHandle>>

\* _onkey with a key of neither table: the key is printed
onkey_other ==
  /\ last' = Quiet("onkey_other", 0)
  /\ UNCHANGED <<duration, cap, data, cb_selection, cb_mark, nextHandle>>

\* ------------------------------------------------------------- specification
Next ==
  \/ \E cb \in Callbacks : on_create_mark(cb)
  \/ \E cb \in Callbacks : on_create_selection(cb)
  \/ \E i \in (-1)..Len(marks) : delete_mark(i)
  \/ \E i \in (-1)..Len(selections) : delete_selection(i)
  \/ \E key \in MoveKeys : onkey_move(key)
  \/ \E x \in ClickCoords : onclick(x)
  \/ onclick_outside
  \/ selection_toggle
  \/ selection_cancel
  \/ create_mark
  \/ onkey_other

Spec == Init /\ [][Next]_vars

\* the events of cursor movement and selection
NextSelect ==
  \/ \E cb \in Callbacks : on_create_selection(cb)
  \/ \E i \in (-1)..Len(selections) : delete_selection(i)
  \/ \E key \in MoveKeys : onkey_move(key)
  \/ \E x \in ClickCoords : onclick(x)
  \/ selection_toggle
  \/ selection_cancel

SpecSelect == InitSelect /\ [][NextSelect]_vars

\* the events of cursor movement and marks
NextMark ==
  \/ \E cb \in Callbacks : on_create_mark(cb)
  \/ \E i \in (-1)..Len(marks) : delete_mark(i)
  \/ \E key \in MoveKeys : onkey_move(key)
  \/ \E x \in ClickCoords : onclick(x)
  \/ onclick_outside
  \/ create_mark

SpecMark == InitMark /\ [][NextMark]_vars

\* ---------------------------------------------------------------------------
\* Properties
\* ---------------------------------------------------------------------------
\* the step just taken was handled by op
Did(op) == last'.op = op

\* two ranges share more than an endpoint
Overlap(a, b) == a[1] < b[2] /\ b[1] < a[2]

\* the ranges of a stored list of selections, as a set
RangeSet(sels) == {<<sels[k][1], sels[k][2]>> : k \in 1..Len(sels)}

\* the stored entries of a list, as a set
Entries(seq) == {seq[k] : k \in 1..Len(seq)}

\* C1: no two distinct committed selections (s1,e1), (s2,e2) satisfy s1 < e2 and
\* s2 < e1, in every state reachable by cursor moves, toggles, cancels and
\* delete_selection calls, whatever order the selections are stored in.
C1_Disjoint ==
  \A i, j \in 1..Len(selections) :
    i # j => ~Overlap(selections[i], selections[j])

\* a commit has just merged the candidate into a neighbour, next to a selection
\* it scanned and left alone
C1_Witness ==
  /\ last.op = "selection_stop"
  /\ last.new
  /\ Len(selections) >= 2
  /\ \E k \in 1..Len(last.scan) : last.scan[k] \in {"extend_start", "extend_end"}
  /\ \E k \in 1..Len(last.scan) : last.scan[k] = "pass"

\* a toggle is closing the open candidate in this step
Closing == current_selection # NoSelection /\ Did("selection_stop")

\* the candidate's normalized range
CandRange == Normalize(current_selection[1], current_selection[2])

\* C3: when a toggle closes a candidate whose normalized range lies inside an
\* existing committed selection, the commit is aborted: the stored selections are
\* exactly what they were (whatever was scanned before the containing one), no
\* selection observer is called, and no candidate is left.
C3_ContainmentDiscards ==
  [][(/\ Closing
      /\ \E k \in 1..Len(selections) :
           selections[k][1] <= CandRange[1] /\ CandRange[2] <= selections[k][2])
     => (/\ selections' = selections
         /\ last'.calls = <<>>
         /\ ~last'.new
         /\ current_selection' = NoSelection)]_vars

\* a commit has just been aborted, with an observer registered and another
\* selection scanned before the containing one
C3_Witness ==
  /\ last.op = "selection_stop"
  /\ ~last.new
  /\ Len(last.scan) >= 2
  /\ last.scan[Len(last.scan)] = "ignore"
  /\ Len(cb_selection) >= 1
  /\ Len(selections) >= 2

\* C4: when a toggle closes a candidate whose start lies inside one selection A
\* and whose end lies inside another selection B, then A, B and every selection
\* between them are replaced by the single selection (A.start, B.end) and every
\* other selection is kept, in whatever order A and B are stored.
C4_ExtendsBothSides ==
  [][Closing =>
     \A a, b \in 1..Len(selections) :
       LET A == selections[a]
           B == selections[b]
           gone == {r \in RangeSet(selections) : A[1] <= r[1] /\ r[2] <= B[2]}
       IN (/\ a # b
           /\ A[1] <= CandRange[1] /\ CandRange[1] <= A[2]
           /\ B[1] <= CandRange[2] /\ CandRange[2] <= B[2])
          => (/\ RangeSet(selections') =
                   (RangeSet(selections) \ gone) \cup {<<A[1], B[2]>>}
              /\ Len(selections') = Len(selections) - Cardinality(gone) + 1
              /\ last'.calls = SelectionCalls(A[1], B[2]))]_vars

\* a commit has just widened the candidate on both sides, having met the
\* selection at its end before the selection at its start, and killed a
\* selection between the two
C4_Witness ==
  /\ last.op = "selection_stop"
  /\ last.new
  /\ last.start < last.cs
  /\ last.ce < last.end
  /\ \E i, j, k \in 1..Len(last.scan) :
       /\ last.scan[i] = "extend_end"
       /\ last.scan[j] = "extend_start"
       /\ last.scan[k] = "kill"
       /\ i < j

\* an existing selection (s, e) reaches into the candidate's range from outside:
\* neither contains the other, and an end of the candidate lies in (s, e)
PartlyOverlaps(sel, c) ==
  /\ ~(sel[1] <= c[1] /\ c[2] <= sel[2])
  /\ ~(c[1] <= sel[1] /\ sel[2] <= c[2])
  /\ \/ sel[1] <= c[1] /\ c[1] <= sel[2]
     \/ sel[1] <= c[2] /\ c[2] <= sel[2]

\* C5: when a toggle closes a candidate (start, end) that no existing selection
\* contains, every existing selection (s, e) with start <= s and e <= end is gone
\* after the commit, and if the candidate partly overlaps no selection the
\* selection inserted is exactly the normalized candidate.
C5_ContainmentAbsorbs ==
  [][(/\ Closing
      /\ ~\E k \in 1..Len(selections) :
            selections[k][1] <= CandRange[1] /\ CandRange[2] <= selections[k][2])
     => (/\ \A k \in 1..Len(selections) :
              (CandRange[1] <= selections[k][1] /\ selections[k][2] <= CandRange[2])
              => (/\ selections[k] \notin Entries(selections')
                  /\ selections[k][3] \in Entries(last'.released))
         /\ (\A k \in 1..Len(selections) : ~PartlyOverlaps(selections[k], CandRange))
            => (/\ Len(selections') >= 1
                /\ selections'[Len(selections')] =
                     <<CandRange[1], CandRange[2], current_selection[3]>>
                /\ RangeSet(selections') =
                     {r \in RangeSet(selections) :
                        ~(CandRange[1] <= r[1] /\ r[2] <= CandRange[2])}
                     \cup {CandRange}))]_vars

\* a commit has just inserted the candidate unwidened, having killed a selection
\* it contained and left another alone
C5_Witness ==
  /\ last.op = "selection_stop"
  /\ last.new
  /\ last.start = last.cs
  /\ last.end = last.ce
  /\ \E k \in 1..Len(last.scan) : last.scan[k] = "kill"
  /\ \E k \in 1..Len(last.scan) : last.scan[k] = "pass"
  /\ <<last.cs, last.ce>> \in RangeSet(selections)

\* a sequence of times is strictly ascending / non-decreasing
StrictlyAscending(ts) == \A k \in 1..(Len(ts) - 1) : ts[k] < ts[k + 1]
NonDecreasing(ts) == \A k \in 1..(Len(ts) - 1) : ts[k] <= ts[k + 1]

\* C2 as stated: after any sequence of cursor moves and commit-mark gestures,
\* two gestures with no move in between included, get_marks() is strictly
\* ascending.
C2_StrictlyAscending == StrictlyAscending(get_marks)

\* C2 as amended: get_marks() is always non-decreasing, and a step leaves it
\* strictly ascending unless it is a commit-mark gesture at a cursor position
\* that already holds a mark.
C2_Ascending ==
  [][/\ NonDecreasing(get_marks')
     /\ (/\ StrictlyAscending(get_marks)
         /\ ~(Did("create_mark") /\ \E k \in 1..Len(marks) : marks[k][1] = cursor))
        => StrictlyAscending(get_marks')]_vars

\* a commit-mark gesture has just put a second mark at a time that held one,
\* beside a mark of another time
C2_Witness ==
  /\ last.op = "create_mark"
  /\ Len(marks) >= 3
  /\ \E k \in 1..(Len(marks) - 1) : marks[k][1] = marks[k + 1][1]
  /\ \E k \in 1..(Len(marks) - 1) : marks[k][1] < marks[k + 1][1]

\* C6: the cursor is always within [0, duration]; a move whose target is below
\* 0 leaves it at 0 and a move whose target is above duration leaves it at
\* duration.
C6_CursorClamp ==
  /\ 0 <= cursor
  /\ cursor <= duration
  /\ last.op = "set_cursor" =>
       /\ last.arg < 0 => cursor = 0
       /\ last.arg > duration => cursor = duration
       /\ (0 <= last.arg /\ last.arg <= duration) => cursor = last.arg

\* a large step from inside the range has just been cut off at duration
C6_Witness ==
  /\ last.op = "set_cursor"
  /\ last.arg > duration + 1
  /\ last.arg < duration + LargeStep
  /\ cursor = duration

\* C7: opening a candidate, moving the cursor and cancelling each leave
\* get_selections() and get_marks() as they were and call no observer, and the
\* cancel leaves no candidate; so a toggle that opens a candidate, any number of
\* moves and a cancel, taken together, do the same.
C7_CancelNoOp ==
  [][/\ (\/ Did("selection_start")
         \/ Did("set_cursor")
         \/ Did("set_cursor_none")
         \/ Did("selection_cancel") /\ current_selection # NoSelection)
        => (/\ selections' = selections
            /\ marks' = marks
            /\ last'.calls = <<>>)
     /\ (Did("selection_cancel") /\ current_selection # NoSelection)
        => (/\ current_selection' = NoSelection
            /\ last'.raised = "none")]_vars

\* a candidate dragged away from its anchor has just been cancelled, with a
\* mark, a selection and an observer of each kind in place
C7_Witness ==
  /\ last.op = "selection_cancel"
  /\ last.raised = "none"
  /\ current_selection = NoSelection
  /\ Len(selections) >= 1
  /\ Len(marks) >= 1
  /\ Len(cb_selection) >= 1
  /\ Len(cb_mark) >= 1

\* C8: a cancel handled while no candidate is open completes without raising
\* an error and leaves cursor, marks, selections and the absent candidate as
\* they were.
C8_CancelIdleNoOp ==
  [][(Did("selection_cancel") /\ current_selection = NoSelection)
     => (/\ last'.raised = "none"
         /\ UNCHANGED data)]_vars

\* seq without the element at Python index i
Without(seq, i) == SubSeq(seq, 1, i) \o SubSeq(seq, i + 2, Len(seq))

\* C9: delete_mark(i) and delete_selection(i) raise the out-of-range error for
\* every i outside [0, count), negative i included, and then change nothing; for
\* i inside [0, count) they remove exactly the i-th element and keep the others
\* in order.
C9_IndexDelete ==
  [][/\ Did("delete_mark") =>
          IF last'.arg < 0 \/ last'.arg >= Len(marks)
          THEN last'.raised = "IndexError" /\ UNCHANGED data
          ELSE /\ last'.raised = "none"
               /\ marks' = Without(marks, last'.arg)
               /\ UNCHANGED <<cursor, current_selection, selections>>
     /\ Did("delete_selection") =>
          IF last'.arg < 0 \/ last'.arg >= Len(selections)
          THEN last'.raised = "IndexError" /\ UNCHANGED data
          ELSE /\ last'.raised = "none"
               /\ selections' = Without(selections, last'.arg)
               /\ UNCHANGED <<cursor, current_selection, marks>>]_vars

\* the middle one of three marks has just been deleted
C9_Witness ==
  /\ last.op = "delete_mark"
  /\ last.raised = "none"
  /\ last.arg = 1
  /\ Len(marks) = 2
  /\ marks[1][1] < marks[2][1]

\* C10: a commit-mark gesture at cursor position x calls every mark observer
\* with an index i and a list L such that L is get_marks() after the insert,
\* L[i] = x, and L without position i is get_marks() as it was before.
C10_MarkIndex ==
  [][Did("create_mark") =>
       /\ Len(last'.calls) = Len(cb_mark)
       /\ \A k \in 1..Len(last'.calls) :
            LET i == last'.calls[k].a
                L == last'.calls[k].b
            IN /\ last'.calls[k].cb = cb_mark[k]
               /\ L = get_marks'
               /\ i \in 0..(Len(L) - 1)
               /\ L[i + 1] = cursor
               /\ Without(L, i) = get_marks]_vars

\* an observer has just been told of a mark created after an earlier mark was
\* deleted, at an index that is not the first
C10_Witness ==
  /\ last.op = "create_mark"
  /\ Len(last.calls) >= 1
  /\ last.calls[1].a >= 1
  /\ Len(marks) >= 2
  /\ nextHandle - 1 > Len(marks)

\* the ranges of the committed selections whose polygons the step releases
RemovedRanges ==
  {<<selections[k][1], selections[k][2]>> :
     k \in {j \in 1..Len(selections) : selections[j][3] \in Entries(last'.released)}}

\* C11: a mark insert calls every mark observer exactly once, in registration
\* order, with the marks as they are after the insert; a commit that is not
\* aborted calls every selection observer exactly once, in registration order,
\* and at each call get_selections() is already the final list, contains the
\* committed (start, end) and none of the selections the commit removed; an
\* aborted commit and every other step call no observer.
C11_ObserverOrder ==
  [][/\ Did("create_mark") =>
          /\ Len(last'.calls) = Len(cb_mark)
          /\ \A k \in 1..Len(last'.calls) :
               /\ last'.calls[k].kind = "mark"
               /\ last'.calls[k].cb = cb_mark[k]
               /\ last'.calls[k].b = get_marks'
     /\ (Did("selection_stop") /\ last'.new) =>
          /\ Len(last'.calls) = Len(cb_selection)
          /\ \A k \in 1..Len(last'.calls) :
               LET c == last'.calls[k]
               IN /\ c.kind = "selection"
                  /\ c.cb = cb_selection[k]
                  /\ c.seen = get_selections'
                  /\ <<c.a, c.b>> \in Entries(c.seen)
                  /\ Entries(c.seen) \cap RemovedRanges = {}
     /\ ~(Did("create_mark") \/ (Did("selection_stop") /\ last'.new)) =>
          last'.calls = <<>>]_vars

\* two selection observers have just been told of a commit that removed a
\* selection it absorbed or extended
C11_Witness ==
  /\ last.op = "selection_stop"
  /\ last.new
  /\ Len(last.calls) = 2
  /\ Len(last.released) >= 1

\* a toggle is handled in this step
Toggling == Did("selection_start") \/ Did("selection_stop")

\* C12: a toggle with no candidate open opens one with start = end = cursor and
\* changes neither the committed selections nor the observer lists, and calls
\* no observer; a toggle with a candidate open always leaves none open, whether
\* the commit inserted a selection or was aborted.  So a toggle opens exactly
\* when no candidate is open and closes exactly when one is, and toggles with
\* no cancel between them alternate.
C12_ToggleMachine ==
  [][Toggling =>
       IF current_selection = NoSelection
       THEN /\ Did("selection_start")
            /\ current_selection' # NoSelection
            /\ current_selection'[1] = cursor
            /\ current_selection'[2] = cursor
            /\ last'.calls = <<>>
            /\ UNCHANGED <<cursor, selections, marks, cb_selection, cb_mark>>
       ELSE /\ Did("selection_stop")
            /\ current_selection' = NoSelection]_vars

\* a candidate has just been opened by a toggle that follows a committed
\* selection and an aborted or cancelled one
C12_Witness ==
  /\ last.op = "selection_start"
  /\ current_selection # NoSelection
  /\ Len(selections) >= 1
  /\ current_selection[3] > selections[Len(selections)][3] + 1

\* C13: whenever a candidate is open its end is the cursor position, clamped
\* as the cursor is, after every step and click, also a click outside the axes;
\* its start is the cursor position at the toggle that opened it and no later
\* step changes it while the candidate stays open.
C13_CandidateTracksCursor ==
  [][/\ current_selection' # NoSelection => current_selection'[2] = cursor'
     /\ Did("selection_start") => current_selection'[1] = cursor
     /\ (current_selection # NoSelection /\ current_selection' # NoSelection) =>
          /\ current_selection'[1] = current_selection[1]
          /\ current_selection'[3] = current_selection[3]]_vars

\* a step past the end of the signal has just moved the end of an open
\* candidate to the clamped cursor, away from its start
C13_Witness ==
  /\ last.op = "set_cursor"
  /\ last.arg > duration
  /\ current_selection # NoSelection
  /\ current_selection[1] < current_selection[2]
  /\ current_selection[2] = duration

\* C14: every committed selection (start, end) has 0 <= start <= end <=
\* duration, also when its candidate was dragged to the left of where it was
\* opened and when the commit widened it by the selections it overlapped.
C14_NormalizedInRange ==
  \A k \in 1..Len(selections) :
    /\ 0 <= selections[k][1]
    /\ selections[k][1] <= selections[k][2]
    /\ selections[k][2] <= duration

\* a candidate dragged to the left has just been committed, widened to the
\* right by a selection it overlapped
C14_Witness ==
  /\ last.op = "selection_stop"
  /\ last.new
  /\ cursor = last.cs
  /\ last.cs < last.ce
  /\ last.end > last.ce
  /\ selections[Len(selections)][2] = last.end

\* C15: handling a key that is neither a directional step nor a mark, toggle
\* or cancel gesture raises no error, calls no observer, and leaves cursor,
\* marks, committed selections, candidate and observer lists as they were,
\* with a candidate open and with none.
C15_UnrecognizedIgnored ==
  [][Did("onkey_other") =>
       /\ last'.raised = "none"
       /\ last'.calls = <<>>
       /\ last'.released = <<>>
       /\ UNCHANGED <<cursor, marks, selections, current_selection,
                      cb_selection, cb_mark>>]_vars

\* an unrecognized key has just been handled with a candidate open, a mark and
\* a selection stored and an observer registered
C15_Witness ==
  /\ last.op = "onkey_other"
  /\ current_selection # NoSelection
  /\ Len(marks) >= 1
  /\ Len(selections) >= 1
  /\ Len(cb_mark) + Len(cb_selection) >= 1

\* the handles held by the mark list, the committed selections and the
\* open candidate
Held ==
  {marks[k][2] : k \in 1..Len(marks)}
    \cup {selections[k][3] : k \in 1..Len(selections)}
    \cup (IF current_selection = NoSelection THEN {} ELSE {current_selection[3]})

\* how many places hold a handle
Holders ==
  Len(marks) + Len(selections) + (IF current_selection = NoSelection THEN 0 ELSE 1)

\* C16: every handle requested for a mark, a selection or a candidate is held
\* by exactly one of the mark list, the committed selections and the open
\* candidate, or has been released exactly once.  Step by step: no handle has
\* two holders (so the candidate's is no committed selection's), the handles a
\* step requests are new and held after it, and the handles a step drops are
\* exactly the ones it releases, each once; a released handle is never held
\* again.  Cancel, aborted commit, absorbed selections and explicit deletes all
\* drop a handle and so release it.
C16_HandleAccounting ==
  [][/\ Cardinality(Held') = Holders'
     /\ Held' \subseteq 1..(nextHandle' - 1)
     /\ Held' \ Held = nextHandle..(nextHandle' - 1)
     /\ Entries(last'.released) = Held \ Held'
     /\ Len(last'.released) = Cardinality(Entries(last'.released))]_vars

\* a commit has just released the handle of a selection it absorbed or
\* extended, with a mark holding another handle
C16_Witness ==
  /\ last.op = "selection_stop"
  /\ last.new
  /\ Len(last.released) >= 1
  /\ Len(marks) >= 1
  /\ Cardinality(Held) = 2

\* the points of the half-unit grid in [2 * lo, 2 * hi]: times are whole
\* units, so the grid tells apart every two unions of closed ranges
Span(lo, hi) == {p \in 0..(2 * duration) : 2 * lo <= p /\ p <= 2 * hi}

\* the points covered by the ranges of a stored list
Covered(sels) ==
  {p \in 0..(2 * duration) : \E k \in 1..Len(sels) : p \in Span(sels[k][1], sels[k][2])}

\* C17: a closing toggle leaves covered exactly the points that were covered
\* before it together with the points between the candidate's two ends,
\* whichever branches the scan took and whether the commit inserted a selection
\* or was aborted.
C17_CoveragePreserved ==
  [][Closing =>
       Covered(selections') = Covered(selections) \cup Span(CandRange[1], CandRange[2])]_vars

\* a commit has just bridged the gap between two selections, leaving one
C17_Witness ==
  /\ last.op = "selection_stop"
  /\ last.new
  /\ last.start < last.cs
  /\ last.cs < last.ce
  /\ last.ce < last.end
  /\ Len(selections) = 1
  /\ Len(last.released) = 2

\* C18: any two distinct committed selections (s1, e1), (s2, e2) satisfy
\* e1 < s2 or e2 < s1, strictly: they share no point, not even an endpoint.  A
\* candidate that touches an existing selection at an endpoint only is merged
\* with it, and one of zero width at that endpoint is discarded.
C18_NeverTouch ==
  \A i, j \in 1..Len(selections) :
    i # j => (selections[i][2] < selections[j][1] \/ selections[j][2] < selections[i][1])

\* a commit has just merged a candidate with a selection whose end was the
\* candidate's start and that shared no other point with it
C18_Witness ==
  /\ last.op = "selection_stop"
  /\ last.new
  /\ last.scan = <<"pass", "extend_start">>
  /\ last.start < last.cs
  /\ last.ce = last.cs + 1
  /\ last.end = last.ce
  /\ Len(selections) = 2

\* how many entries of ts are x
CountOf(ts, x) == Cardinality({k \in 1..Len(ts) : ts[k] = x})

\* C19: get_marks() is non-decreasing after every commit-mark gesture and
\* every delete_mark; a commit-mark gesture adds exactly one mark, at the
\* cursor position, and keeps every mark there was, so at a position that
\* holds a mark already it adds a second mark of that same time; a delete
\* that does not fail takes exactly one mark away.
C19_SortedUnderCreateAndDelete ==
  [][/\ NonDecreasing(get_marks')
     /\ Did("create_mark") =>
          /\ Len(marks') = Len(marks) + 1
          /\ CountOf(get_marks', cursor) = CountOf(get_marks, cursor) + 1
          /\ \A x \in 0..duration :
               x # cursor => CountOf(get_marks', x) = CountOf(get_marks, x)
     /\ (Did("delete_mark") /\ last'.raised = "none") =>
          /\ Len(marks') = Len(marks) - 1
          /\ \E k \in 1..Len(marks) : marks' = PopAt(marks, k - 1)]_vars

\* a delete has just left two marks of one time, which two commit-mark
\* gestures at one cursor position had stored beside a third mark
C19_Witness ==
  /\ last.op = "delete_mark"
  /\ last.raised = "none"
  /\ Len(marks) = 2
  /\ marks[1][1] = marks[2][1]
  /\ marks[1][2] # marks[2][2]

\* C20: get_selections() changes only in a closing toggle or a
\* delete_selection, get_marks() only in a commit-mark gesture or a
\* delete_mark, and the cursor position only in a directional step or a
\* pointer click; a cursor move with a candidate open leaves the committed
\* selections as they were; creating or deleting a mark leaves cursor,
\* candidate and selections as they were.
C20_Independence ==
  [][/\ get_selections' # get_selections =>
          (Did("selection_stop") \/ Did("delete_selection"))
     /\ get_marks' # get_marks => (Did("create_mark") \/ Did("delete_mark"))
     /\ cursor' # cursor => (Did("set_cursor") \/ Did("set_cursor_none"))
     /\ (Did("set_cursor") \/ Did("set_cursor_none")) =>
          UNCHANGED <<selections, marks>>
     /\ (Did("create_mark") \/ Did("delete_mark")) =>
          UNCHANGED <<cursor, current_selection, selections>>]_vars

\* a mark has just been created away from time 0 with a candidate open and
\* dragged and a selection stored
C20_Witness ==
  /\ last.op = "create_mark"
  /\ cursor > 0
  /\ current_selection # NoSelection
  /\ current_selection[1] # current_selection[2]
  /\ Len(selections) = 1
  /\ Len(marks) = 1

====
